---- MODULE Spec2Model ----
(***************************************************************************)
(* The fetch / aggregate / generate pipeline of hdx-scraper-worldbank-rtp  *)
(* (src/src/hdx/scraper/worldbank_rtp/pipeline.py) as a state machine.     *)
(*                                                                         *)
(* The program is single-threaded: a driver pulls groups from the          *)
(* generator aggregate_by_country, which pulls records from the generator  *)
(* fetch_data, which downloads pages.  One program counter, pc, says where *)
(* that one thread is; each action is one stretch of the code between two  *)
(* such places.                                                            *)
(*                                                                         *)
(* Data representation.  A Python dict is a sequence of <<key, value>>     *)
(* pairs in insertion order.  An optional value is <<>> (None) or <<v>>.   *)
(* A list of records is held run-length encoded, as a sequence of runs:    *)
(* a page is a sequence of [rec, n] (n equal consecutive rows), a list of  *)
(* yielded or bucketed records a sequence of [rec, src, lo, hi], standing  *)
(* for the records number lo..hi of the stream of fetch number src, which  *)
(* all have the fields rec.  The n-th record fetch_data yields for the     *)
(* src-th model of the list is the record (src, n).                        *)
(***************************************************************************)
EXTENDS Integers, Sequences, FiniteSets, TLC

\* ------------------------------------------------------------ constants

\* pipeline.py:32  limit = 1000
limit == 1000

\* pipeline.py:73  if total_records >= 10000
FlushThreshold == 10000

\* Bounds of the model: page requests of one fetch_data call against the
\* unconstrained server, and rows of one page of that server.
MaxPages == 2
MaxBatch == 2

\* Bound of the model: records of a list handed to a method called directly.
MaxList == 2

None == <<>>
Some(v) == <<v>>

\* ------------------------------------------------------------ dicts

\* dict.get(key, default)
Get(d, k, default) == IF k \in DOMAIN d THEN d[k] ELSE default

\* dict.get(key): None when the key is absent
GetOpt(d, k) == IF k \in DOMAIN d THEN Some(d[k]) ELSE None

\* Ordered dicts (insertion order), as sequences of <<key, value>>.
Keys(d) == {d[i][1] : i \in DOMAIN d}
Has(d, k) == k \in Keys(d)
IndexOf(d, k) == CHOOSE i \in DOMAIN d : d[i][1] = k
Lookup(d, k) == d[IndexOf(d, k)][2]
Values(d) == [i \in DOMAIN d |-> d[i][2]]

\* d[k] = v: a new key goes last, an existing key keeps its place
Put(d, k, v) ==
    IF Has(d, k) THEN [d EXCEPT ![IndexOf(d, k)] = <<k, v>>]
    ELSE Append(d, <<k, v>>)

\* del d[k]
DelMutantKeep(d, k) == d
Del(d, k) == SelectSeq(d, LAMBDA e : e[1] # k)

\* ------------------------------------------------------------ record lists

\* len(records)
RECURSIVE ListLen(_)
ListLen(l) ==
    IF l = <<>> THEN 0
    ELSE (Head(l).hi - Head(l).lo + 1) + ListLen(Tail(l))

\* records.append(record), the record being number id of stream src
ListAppend(l, rec, src, id) ==
    IF l # <<>> /\ l[Len(l)].rec = rec /\ l[Len(l)].src = src
                /\ l[Len(l)].hi + 1 = id
    THEN [l EXCEPT ![Len(l)].hi = id]
    ELSE Append(l, [rec |-> rec, src |-> src, lo |-> id, hi |-> id])

\* rows of a page
RECURSIVE Rows(_)
Rows(segs) == IF segs = <<>> THEN 0 ELSE Head(segs).n + Rows(Tail(segs))

\* the page without its first row
Rest(segs) ==
    IF Head(segs).n = 1 THEN Tail(segs)
    ELSE <<[Head(segs) EXCEPT !.n = @ - 1]>> \o Tail(segs)

RECURSIVE Drop(_, _)
Drop(segs, k) ==
    IF k = 0 \/ segs = <<>> THEN segs
    ELSE IF Head(segs).n <= k THEN Drop(Tail(segs), k - Head(segs).n)
    ELSE <<[Head(segs) EXCEPT !.n = @ - k]>> \o Tail(segs)

RECURSIVE Take(_, _)
Take(segs, k) ==
    IF k = 0 \/ segs = <<>> THEN <<>>
    ELSE IF Head(segs).n <= k
         THEN <<Head(segs)>> \o Take(Tail(segs), k - Head(segs).n)
    ELSE <<[Head(segs) EXCEPT !.n = k]>>

\* ------------------------------------------------------------ the remote API

\* Rows the API serves.  ISO3 and DATES may be missing; DATES is a string.
Row(iso3, dates) == [ISO3 |-> iso3, DATES |-> dates]
RowAFG == Row("AFG", "2007-01-01")
RowAFG2 == Row("AFG", "2025-07-01")
RowZZZ == Row("ZZZ", "2007-01-01")
RowATA == Row("ATA", "2025-07-01")
RowNoISO3 == [DATES |-> "2025-07-01"]
RowGarbled == Row("AFG", "garbled")
RowNoDates == [ISO3 |-> "AFG"]

\* A well-behaved server holds one collection per model (here the same for
\* every model) and answers (limit, offset) with rows offset ..
\* offset + limit - 1 and the collection's size as total.
Collections == {
    <<>>,
    <<[rec |-> RowNoISO3, n |-> 1], [rec |-> RowAFG, n |-> 1]>>,
    <<[rec |-> RowZZZ, n |-> 1], [rec |-> RowATA, n |-> 1],
      [rec |-> RowAFG, n |-> 1], [rec |-> RowAFG2, n |-> 2]>>,
    <<[rec |-> RowAFG, n |-> 1], [rec |-> RowGarbled, n |-> 1],
      [rec |-> RowAFG, n |-> 1]>>,
    <<[rec |-> RowAFG2, n |-> 1], [rec |-> RowNoDates, n |-> 1]>>,
    <<[rec |-> RowAFG, n |-> 1000]>>,
    <<[rec |-> RowNoISO3, n |-> 1], [rec |-> RowAFG, n |-> 1000]>>,
    <<[rec |-> RowNoISO3, n |-> 1], [rec |-> RowAFG, n |-> 10001]>>,
    <<[rec |-> RowNoISO3, n |-> 1], [rec |-> RowATA, n |-> 1],
      [rec |-> RowZZZ, n |-> 10000]>>,
    <<[rec |-> RowNoISO3, n |-> 1], [rec |-> RowZZZ, n |-> 20001]>> }

PagedResponse(coll, lim, off) ==
    [total |-> Rows(coll), data |-> Take(Drop(coll, off), lim)]

\* Any other server: each response has a total or none, and a data list
\* or none, whatever was asked.
AnyTotals == {1000, 1001, 5000}
AnyData ==
    {<<>>} \cup {<<[rec |-> r, n |-> k]>> :
                    r \in {RowAFG, RowNoISO3}, k \in 1..MaxBatch}
AnyResponses ==
    [total : AnyTotals, data : AnyData] \cup [data : AnyData]
        \cup [total : AnyTotals]

Servers == {[kind |-> "paged", coll |-> c] : c \in Collections}
               \cup {[kind |-> "any"]}

\* The servers with a collection of one page
SmallServers == {s \in Servers : s.kind = "paged" /\ Rows(s.coll) < limit}

\* ------------------------------------------------------------ inputs

AllModels == <<"food", "energy">>
ModelLists == {SubSeq(AllModels, 1, n) : n \in 0..Len(AllModels)}
Caps == {None, Some(0), Some(1), Some(1001)}

\* ------------------------------------------------------------ state

VARIABLES
    models,        \* aggregate_by_country's argument
    max_records,   \* aggregate_by_country's argument, None or a number
    server,        \* what the remote API is
    pc,            \* where the program is
    mi,            \* the model of the for loop of line 63: models[mi]
    offset,        \* fetch_data's offset
    total,         \* fetch_data's total, None or a number
    response,      \* fetch_data's response, None before the first page;
                   \* its rows are the records yielded, dates set and all
    batch,         \* the rows of the page the loop of line 47 has yet to yield
    country_code,  \* aggregate_by_country's country_code
    country_data,  \* aggregate_by_country's country_data
    di,            \* the entry of country_data the loop of line 78 is at
    requests,      \* history: the page requests made
    yielded,       \* history: per fetch, the records fetch_data yielded
    emitted,       \* history: the groups aggregate_by_country yielded
    results,       \* history: what the driver got from generate_dataset
    configuration, \* the configuration the Pipeline was constructed with
    tempdir,       \* history: the files written to the Pipeline's tempdir
    call,          \* a direct call of a method: its name and arguments
    ret,           \* what the direct call returned, None before it has
    driver         \* which loop consumes aggregate_by_country's groups

vars == <<models, max_records, server, pc, mi, offset, total, response, batch,
          country_code, country_data, di, requests, yielded, emitted, results,
          configuration, tempdir, call, ret, driver>>

\* ------------------------------------------------------------ collaborators

\* hdx.utilities.dateparse.parse_date: a datetime (here the number
\* yyyymmdd) for a string that is a date; it raises for any other string
\* and for None.
Datetimes == ("2007-01-01" :> 20070101) @@ ("2025-07-01" :> 20250701)
parse_date(string) ==
    IF string # None /\ string[1] \in DOMAIN Datetimes
    THEN [ok |-> TRUE, value |-> Datetimes[string[1]]]
    ELSE [ok |-> FALSE]

\* hdx.location.country.Country.get_country_name_from_iso3: None for a code
\* that is no country's.
CountryNames == ("AFG" :> "Afghanistan") @@ ("ATA" :> "Antarctica")
get_country_name_from_iso3(iso3) == GetOpt(CountryNames, iso3)

\* Dataset.add_country_location raises HDXError for a country the catalog
\* has no location for.
HDXLocations == {"AFG"}
add_country_location(iso3) == iso3 \in HDXLocations

\* slugify, on the titles and resource names the model meets
Slugs == ("Afghanistan - Real Time Prices" :> "afghanistan-real-time-prices")
           @@ ("Antarctica - Real Time Prices" :> "antarctica-real-time-prices")
           @@ ("Afghanistan - " :> "afghanistan")
           @@ ("Antarctica - " :> "antarctica")
           @@ ("Real Time Food Prices for Afghanistan"
                   :> "real-time-food-prices-for-afghanistan")
           @@ ("Real Time Energy Prices for Afghanistan"
                   :> "real-time-energy-prices-for-afghanistan")
           @@ ("Real Time food Prices for Afghanistan"
                   :> "real-time-food-prices-for-afghanistan")
           @@ ("Real Time energy Prices for Afghanistan"
                   :> "real-time-energy-prices-for-afghanistan")
           @@ ("Real Time Food Prices for Antarctica"
                   :> "real-time-food-prices-for-antarctica")
           @@ ("Real Time Energy Prices for Antarctica"
                   :> "real-time-energy-prices-for-antarctica")
slugify(text) == Slugs[text]

\* str.capitalize, on the model names
Capitalized == ("food" :> "Food") @@ ("energy" :> "Energy")
                 @@ ("currency" :> "Currency")
capitalize(model) == Capitalized[model]

\* The project configuration the pipeline is constructed with.
Configuration ==
    [base_url |-> "https://api/",
     food |-> "food_prices",
     energy |-> "energy_prices",
     currency |-> "exchange_rates",
     title |-> "Real Time Prices",
     tags |-> <<"energy", "food security">>,
     description_food |-> "food prices",
     description_energy |-> "energy prices",
     description_currency |-> "exchange rates"]

\* The configurations a Pipeline is constructed with: the project's, and
\* the project's with one key missing.
WithoutKey(conf, key) == [k \in DOMAIN conf \ {key} |-> conf[k]]
Configurations ==
    {Configuration} \cup {WithoutKey(Configuration, key) :
                             key \in DOMAIN Configuration}

\* self._configuration[key]: the value, or KeyError for a missing key
Subscript(conf, key) ==
    IF key \in DOMAIN conf THEN [ok |-> TRUE, value |-> conf[key]]
    ELSE [ok |-> FALSE]

\* ------------------------------------------------------------ fetch_data

\* The response to a request of lines 37-38.
Responses(lim, off) ==
    IF server.kind = "paged" THEN {PagedResponse(server.coll, lim, off)}
    ELSE AnyResponses

\* line 51: the page loop ends
LastPageMutantGreater(off, tot) == off > tot
LastPage(off, tot) == off >= tot

\* lines 40-41: total is read from the first response that finds it None
ReadTotalMutantAlways(tot, resp) == Some(Get(resp, "total", 0))
ReadTotal(tot, resp) ==
    IF tot = None THEN Some(Get(resp, "total", 0)) ELSE tot

\* The generator is finished: its frame is gone.
FetchEnds ==
    /\ pc' = "model"
    /\ offset' = 0
    /\ total' = None
    /\ response' = None
    /\ batch' = <<>>

\* lines 63-64 and 32-34: the for loop takes the next model and calls
\* fetch_data, or is over (line 78).
NextIndexMutantSkip(i) == i + 2
NextIndex(i) == i + 1

NextModel ==
    /\ pc = "model"
    /\ IF NextIndex(mi) <= Len(models)
       THEN /\ mi' = NextIndex(mi)
            /\ offset' = 0
            /\ total' = max_records
            /\ yielded' = [i \in 1..NextIndex(mi) |->
                              IF i \in DOMAIN yielded THEN yielded[i] ELSE <<>>]
            /\ pc' = "request"
            /\ UNCHANGED di
       ELSE /\ pc' = "drain"
            /\ di' = 1
            /\ UNCHANGED <<mi, offset, total, yielded>>
    /\ UNCHANGED <<models, max_records, server, response, batch, country_code,
                   country_data, requests, emitted, results,
                   configuration, tempdir, call, ret, driver>>

\* line 37: the URL of a page, or KeyError
data_url(model, lim, off) ==
    LET base_url == Subscript(configuration, "base_url")
        path == Subscript(configuration, model)
    IN  IF ~base_url.ok \/ ~path.ok THEN [ok |-> FALSE]
        ELSE [ok |-> TRUE, base_url |-> base_url.value, path |-> path.value,
              limit |-> lim, offset |-> off]

\* line 44: the page has no rows
EmptyBatchMutantNever(rows) == FALSE
EmptyBatch(rows) == rows = <<>>

\* lines 37-45: one page is downloaded
DownloadPage ==
    /\ pc = "request"
    /\ server.kind = "any" => offset < MaxPages * limit
    /\ IF ~data_url(models[mi], limit, offset).ok
       THEN /\ pc' = "raised"
            /\ UNCHANGED <<offset, total, response, batch, requests>>
       ELSE \E resp \in Responses(limit, offset) :
          /\ requests' = Append(requests,
                 [model |-> models[mi], limit |-> limit, offset |-> offset,
                  rows |-> Rows(Get(resp, "data", <<>>))])
          /\ IF EmptyBatch(Get(resp, "data", <<>>))
             THEN FetchEnds
             ELSE /\ response' = Some(resp)
                  /\ total' = ReadTotal(total, resp)
                  /\ batch' = Get(resp, "data", <<>>)
                  /\ pc' = "iterate"
                  /\ UNCHANGED offset
    /\ UNCHANGED <<models, max_records, server, mi, country_code, country_data,
                   di, yielded, emitted, results, configuration, tempdir,
                   call, ret, driver>>

\* line 50
NextOffsetMutantPageIndex(off, lim) == off + 1
NextOffset(off, lim) == off + lim

\* lines 50-52: the page is used up
EndOfBatch ==
    /\ pc = "iterate"
    /\ batch = <<>>
    /\ IF LastPage(NextOffset(offset, limit), total[1])
       THEN FetchEnds
       ELSE /\ offset' = NextOffset(offset, limit)
            /\ pc' = "request"
            /\ UNCHANGED <<total, response, batch>>
    /\ UNCHANGED <<models, max_records, server, mi, country_code, country_data,
                   di, requests, yielded, emitted, results,
                   configuration, tempdir, call, ret, driver>>

\* ------------------------------------------------------------ aggregate_by_country

\* line 65
CountryCodeMutantNone(record) == Get(record, "ISO3", "")
CountryCode(record) == Get(record, "ISO3", "Unknown")

\* record[key] = value
SetField(record, k, v) ==
    IF k \in DOMAIN record THEN [record EXCEPT ![k] = v]
    ELSE record @@ (k :> v)

\* a page's rows with one more row at the end
PageAppend(segs, rec) ==
    IF segs # <<>> /\ segs[Len(segs)].rec = rec
    THEN [segs EXCEPT ![Len(segs)].n = @ + 1]
    ELSE Append(segs, [rec |-> rec, n |-> 1])

\* lines 43, 47 and 66: the record the loop of line 47 yields is the dict
\* that is row number k of response["data"], so the assignment of line 66
\* shows in the response: the row is rec from then on.  The rows before it
\* were assigned to before; the rows after it still hold the downloaded
\* string where rec holds a datetime, and stay runs of their own.
SetRow(segs, k, rec) == PageAppend(Take(segs, k - 1), rec) \o Drop(segs, k)

\* line 67: country_data[country_code][model].append(record), on
\* defaultdicts
BucketMutantAllModels(cd, code, model, rec, src, id) ==
    LET md0 == IF Has(cd, code) THEN Lookup(cd, code)
               ELSE [i \in DOMAIN models |-> <<models[i], <<>>>>]
        l == Lookup(md0, model)
    IN  Put(cd, code, Put(md0, model, ListAppend(l, rec, src, id)))
Bucket(cd, code, model, rec, src, id) ==
    LET md == IF Has(cd, code) THEN Lookup(cd, code) ELSE <<>>
        l == IF Has(md, model) THEN Lookup(md, model) ELSE <<>>
    IN  Put(cd, code, Put(md, model, ListAppend(l, rec, src, id)))

\* lines 70-72
total_recordsMutantFirst(model_data) ==
    IF model_data = <<>> THEN 0 ELSE ListLen(Head(model_data)[2])
RECURSIVE total_records(_)
total_records(model_data) ==
    IF model_data = <<>> THEN 0
    ELSE ListLen(Head(model_data)[2]) + total_records(Tail(model_data))

\* line 73
FlushMutantGreater(n) == n > FlushThreshold
Flush(n) == n >= FlushThreshold

\* lines 47-48 and 65-74: fetch_data yields the next record of the page and
\* the aggregator sets its date, in the row of the response that the record
\* is, and buckets it, then yields the country's group or goes on
ConsumeRecord ==
    /\ pc = "iterate"
    /\ batch # <<>>
    /\ LET record == Head(batch).rec
           id == ListLen(yielded[mi]) + 1
           code == CountryCode(record)
           parsed == parse_date(GetOpt(record, "DATES"))
           row == Rows(response[1].data) - Rows(batch) + 1
       IN  /\ batch' = Rest(batch)
           /\ yielded' = [yielded EXCEPT ![mi] = ListAppend(@, record, mi, id)]
           /\ country_code' = code
           /\ IF ~parsed.ok
              THEN /\ pc' = "raised"
                   /\ UNCHANGED <<response, country_data, emitted>>
              ELSE LET dated == SetField(record, "DATES", parsed.value)
                       cd == Bucket(country_data, code, models[mi], dated,
                                    mi, id)
                   IN  /\ response' = Some([response[1] EXCEPT
                                              !.data = SetRow(@, row, dated)])
                       /\ country_data' = cd
                       /\ IF Flush(total_records(Lookup(cd, code)))
                          THEN /\ emitted' = Append(emitted,
                                      [country_code |-> code,
                                       model_data |-> Lookup(cd, code),
                                       at |-> "flush"])
                               /\ pc' = "yield_flush"
                          ELSE /\ pc' = "iterate"
                               /\ UNCHANGED emitted
    /\ UNCHANGED <<models, max_records, server, mi, offset, total,
                   di, requests, results,
                   configuration, tempdir, call, ret, driver>>

\* The driver has handled every group it was given.
HandledMutantEager == TRUE
Handled == Len(results) = Len(emitted)

\* tests/test_pipeline.py lines 31-34 and 98: the test's loop ends with the
\* first group it has called generate_dataset for.
Breaks ==
    /\ driver = "test"
    /\ results # <<>>
    /\ results[Len(results)].kind # "continue"

\* line 75: the driver asks for the next group after a flush
ResumeAfterFlush ==
    /\ pc = "yield_flush"
    /\ Handled
    /\ ~Breaks
    /\ country_data' = Del(country_data, country_code)
    /\ pc' = "iterate"
    /\ UNCHANGED <<models, max_records, server, mi, offset, total, response,
                   batch, country_code, di, requests, yielded, emitted,
                   results,
                   configuration, tempdir, call, ret, driver>>

\* line 79
anyMutantNot(model_data) == \A i \in DOMAIN model_data : model_data[i][2] = <<>>
any(model_data) == \E i \in DOMAIN model_data : model_data[i][2] # <<>>

\* lines 78-80: the remaining countries
Drain ==
    /\ pc = "drain"
    /\ IF di <= Len(country_data)
       THEN IF any(country_data[di][2])
            THEN /\ emitted' = Append(emitted,
                        [country_code |-> country_data[di][1],
                         model_data |-> country_data[di][2],
                         at |-> "drain"])
                 /\ country_code' = country_data[di][1]
                 /\ pc' = "yield_drain"
                 /\ UNCHANGED di
            ELSE /\ di' = di + 1
                 /\ UNCHANGED <<pc, emitted, country_code>>
       ELSE /\ pc' = "done"
            /\ UNCHANGED <<di, emitted, country_code>>
    /\ UNCHANGED <<models, max_records, server, mi, offset, total, response,
                   batch, country_data, requests, yielded, results,
                   configuration, tempdir, call, ret, driver>>

\* line 78: the driver asks for the next group after one of the remaining
ResumeAfterDrain ==
    /\ pc = "yield_drain"
    /\ Handled
    /\ ~Breaks
    /\ di' = di + 1
    /\ pc' = "drain"
    /\ UNCHANGED <<models, max_records, server, mi, offset, total, response,
                   batch, country_code, country_data, requests, yielded,
                   emitted, results,
                   configuration, tempdir, call, ret, driver>>

\* ------------------------------------------------------------ generate_dataset

RECURSIVE Concat(_)
Concat(lists) ==
    IF lists = <<>> THEN <<>> ELSE Head(lists) \o Concat(Tail(lists))

Min(S) == CHOOSE x \in S : \A y \in S : x <= y
MaxMutantMin(S) == CHOOSE x \in S : \A y \in S : x <= y
Max(S) == CHOOSE x \in S : \A y \in S : x >= y

\* lines 151-164; a record's date is falsy when it is absent
get_date_range(records) ==
    LET dates == {records[i].rec.DATES :
                     i \in {j \in DOMAIN records : "DATES" \in DOMAIN records[j].rec}}
    IN  IF dates = {} THEN <<None, None>>
        ELSE <<Some(Min(dates)), Some(Max(dates))>>

\* ------------------------------------------------------------ format_date

\* Strings, as far as format_date tells them apart: the empty string, a
\* text no format reads, and three groups of digits with a separator
\* between them, a time of day in UTC ("T00:00:00Z") after them or not.
\* A group of digits is its value and its width: "02" is Digits(2, 2).
Digits(v, w) == [v |-> v, w |-> w]
EmptyString == [kind |-> "empty"]
Text == [kind |-> "text"]
DateString(sep, p1, p2, p3, suffix) ==
    [kind |-> "date", sep |-> sep, parts |-> <<p1, p2, p3>>, suffix |-> suffix]

\* A strptime format of three directives with a separator: "%d/%m/%Y" is
\* Format("/", "d", "m", "Y").
Format(sep, f1, f2, f3) == [sep |-> sep, fields |-> <<f1, f2, f3>>]

\* datetime: the days of a month
DaysInMonth(y, mo) ==
    IF mo = 2
    THEN (IF y % 4 = 0 /\ (y % 100 # 0 \/ y % 400 = 0) THEN 29 ELSE 28)
    ELSE IF mo \in {4, 6, 9, 11} THEN 30 ELSE 31

\* datetime: the date of a year, a month and a day, or ValueError
Date(y, mo, d) ==
    IF y \in 1..9999 /\ mo \in 1..12 /\ d >= 1 /\ d <= DaysInMonth(y, mo)
    THEN [ok |-> TRUE, y |-> y, m |-> mo, d |-> d]
    ELSE [ok |-> FALSE]

\* datetime.strptime: %Y reads four digits, %m and %d one or two; the whole
\* string has to be read.
strptime(date_str, date_fmt) ==
    IF date_str.kind # "date" THEN [ok |-> FALSE]
    ELSE IF date_str.sep # date_fmt.sep \/ date_str.suffix # ""
    THEN [ok |-> FALSE]
    ELSE IF \E i \in 1..3 :
               date_str.parts[i].w #
                   (IF date_fmt.fields[i] = "Y" THEN 4 ELSE date_str.parts[i].w)
               \/ (date_fmt.fields[i] # "Y" /\ date_str.parts[i].w > 2)
    THEN [ok |-> FALSE]
    ELSE LET at(f) == CHOOSE i \in 1..3 : date_fmt.fields[i] = f
         IN  Date(date_str.parts[at("Y")].v, date_str.parts[at("m")].v,
                  date_str.parts[at("d")].v)

\* datetime.fromisoformat of date_str.replace("Z", "+00:00"): YYYY-MM-DD,
\* with or without a time of day and an offset.
fromisoformat(date_str) ==
    IF date_str.kind # "date" THEN [ok |-> FALSE]
    ELSE IF date_str.sep # "-" THEN [ok |-> FALSE]
    ELSE IF <<date_str.parts[1].w, date_str.parts[2].w, date_str.parts[3].w>>
              # <<4, 2, 2>>
    THEN [ok |-> FALSE]
    ELSE Date(date_str.parts[1].v, date_str.parts[2].v, date_str.parts[3].v)

\* date.isoformat
isoformat(dt) ==
    DateString("-", Digits(dt.y, 4), Digits(dt.m, 2), Digits(dt.d, 2), "")

\* lines 148-149: parsing failed
FallbackMutantEmpty(date_str) == EmptyString
Fallback(date_str) == date_str

\* lines 139-149
format_date(date_str, date_fmt) ==
    IF date_str = EmptyString THEN EmptyString
    ELSE LET dt == IF date_fmt # None THEN strptime(date_str, date_fmt[1])
                   ELSE fromisoformat(date_str)
         IN  IF dt.ok THEN isoformat(dt) ELSE Fallback(date_str)

\* ------------------------------------------------------------ generate_dataset (2)

\* line 120
ResourceNameMutantAsIs(model, country_name) ==
    "Real Time " \o model \o " Prices for " \o country_name
ResourceName(model, country_name) ==
    "Real Time " \o capitalize(model) \o " Prices for " \o country_name

\* lines 119-135: the resource of one model, and the file its rows are
\* written to
Resource(model, records, country_name) ==
    [name |-> ResourceName(model, country_name),
     description |-> Get(configuration, "description_" \o model, ""),
     headers |-> DOMAIN records[1].rec,
     rows |-> records,
     filename |-> slugify(ResourceName(model, country_name)) \o ".csv"]

\* lines 85-88: the country name is not found
NameNotFoundMutantRaise(country_name) == [kind |-> "raise", written |-> <<>>]
NameNotFound(country_name) ==
    [kind |-> "none", log |-> "warning", written |-> <<>>]

\* lines 101-135: the dataset with one resource per key of the dict.
\* records[0] raises IndexError for a key with no record, after the
\* resources of the keys before it.
Assemble(code, country_model_data, country_name, title, tags) ==
    LET empty == {i \in DOMAIN country_model_data :
                     country_model_data[i][2] = <<>>}
        n == IF empty = {} THEN Len(country_model_data)
             ELSE (CHOOSE i \in empty : \A j \in empty : i <= j) - 1
        resources == [i \in 1..n |->
                         Resource(country_model_data[i][1],
                                  country_model_data[i][2], country_name)]
        written == [i \in 1..n |-> resources[i].filename]
    IN  IF empty # {} THEN [kind |-> "raise", written |-> written]
        ELSE [kind |-> "dataset",
              name |-> slugify(title),
              title |-> title,
              time_period |-> get_date_range(Concat(Values(country_model_data))),
              tags |-> tags,
              subnational |-> TRUE,
              location |-> code,
              resources |-> resources,
              written |-> written]

\* lines 112-116: the catalog has no location for the country
LocationRejectedMutantLate(code, country_model_data, country_name, title, tags) ==
    [kind |-> "none", log |-> "error",
     written |-> Assemble(code, country_model_data, country_name, title,
                          tags).written]
LocationRejected(code, country_model_data, country_name, title, tags) ==
    [kind |-> "none", log |-> "error", written |-> <<>>]

\* lines 82-137.  The outcome is a dataset, nothing (with what was logged)
\* or an exception, and the files written to tempdir on the way.
generate_dataset(code, country_model_data) ==
    LET country_name == get_country_name_from_iso3(code)
        title == Subscript(configuration, "title")
        tags == Subscript(configuration, "tags")
    IN  IF country_name = None THEN NameNotFound(country_name)
        ELSE IF ~title.ok \/ ~tags.ok THEN [kind |-> "raise", written |-> <<>>]
        ELSE
        LET dataset_title == country_name[1] \o " - " \o title.value
        IN  IF ~add_country_location(code)
            THEN LocationRejected(code, country_model_data, country_name[1],
                                  dataset_title, tags.value)
            ELSE Assemble(code, country_model_data, country_name[1],
                          dataset_title, tags.value)

\* ------------------------------------------------------------ the driver

\* The loops that consume the groups: the test's, which looks at
\* Afghanistan only, and the top-level script's, which generates the dataset
\* of every group.
Drivers == {"test", "main"}

\* tests/test_pipeline.py lines 31-32: the test's loop passes over a group
\* of another country and asks for the next.
Continue ==
    /\ driver = "test"
    /\ pc \in {"yield_flush", "yield_drain"}
    /\ ~Handled
    /\ emitted[Len(results) + 1].country_code # "AFG"
    /\ results' = Append(results, [kind |-> "continue", written |-> <<>>])
    /\ UNCHANGED <<models, max_records, server, pc, mi, offset, total, response,
                   batch, country_code, country_data, di, requests, yielded,
                   emitted, configuration, tempdir, call, ret, driver>>

\* tests/test_pipeline.py line 34: generate_dataset is called for the group
\* the loop was given; an exception ends the run.
Handle ==
    /\ pc \in {"yield_flush", "yield_drain"}
    /\ ~Handled
    /\ LET group == emitted[Len(results) + 1]
           dataset == generate_dataset(group.country_code, group.model_data)
       IN  /\ results' = Append(results, dataset)
           /\ tempdir' = tempdir \o
                  [i \in DOMAIN dataset.written |->
                      [group |-> Len(results) + 1,
                       filename |-> dataset.written[i]]]
           /\ pc' = IF dataset.kind = "raise" THEN "raised" ELSE pc
    /\ UNCHANGED <<models, max_records, server, mi, offset, total, response,
                   batch, country_code, country_data, di, requests, yielded,
                   emitted, configuration, call, ret, driver>>

\* tests/test_pipeline.py lines 31-36: the test's loop generates the dataset
\* of a group of Afghanistan.
Generate ==
    /\ driver = "test"
    /\ pc \in {"yield_flush", "yield_drain"}
    /\ ~Handled
    /\ emitted[Len(results) + 1].country_code = "AFG"
    /\ Handle

\* The top-level script's loop generates the dataset of every group it is
\* given and asks for the next.
GenerateEach ==
    /\ driver = "main"
    /\ Handle

\* tests/test_pipeline.py line 98: the test's loop is left after the group
\* of Afghanistan; the generator is never resumed.
Stop ==
    /\ pc \in {"yield_flush", "yield_drain"}
    /\ Handled
    /\ Breaks
    /\ pc' = "stopped"
    /\ UNCHANGED <<models, max_records, server, mi, offset, total, response,
                   batch, country_code, country_data, di, requests, yielded,
                   emitted, results, configuration, tempdir, call, ret, driver>>

\* ------------------------------------------------------------ specification

Init ==
    /\ driver \in Drivers
    /\ configuration \in Configurations
    /\ models \in ModelLists
    /\ max_records \in Caps
    /\ server \in IF configuration = Configuration THEN Servers
                  ELSE SmallServers
    /\ pc = "model"
    /\ mi = 0
    /\ offset = 0
    /\ total = None
    /\ response = None
    /\ batch = <<>>
    /\ country_code = ""
    /\ country_data = <<>>
    /\ di = 0
    /\ requests = <<>>
    /\ yielded = <<>>
    /\ emitted = <<>>
    /\ results = <<>>
    /\ tempdir = <<>>
    /\ call = None
    /\ ret = None

Next ==
    \/ NextModel
    \/ DownloadPage
    \/ ConsumeRecord
    \/ EndOfBatch
    \/ ResumeAfterFlush
    \/ Drain
    \/ ResumeAfterDrain
    \/ Continue
    \/ Generate
    \/ GenerateEach
    \/ Stop

Spec == Init /\ [][Next]_vars

\* ------------------------------------------------------------ direct calls

\* The methods that take no part in the run above until they are called
\* are called directly, on a Pipeline with the project's configuration.

\* Records as aggregate_by_country leaves them: DATES a datetime, or absent
\* (get_date_range reads it with .get).
DirectRecords ==
    {[ISO3 |-> "AFG", DATES |-> 20070101],
     [ISO3 |-> "AFG", DATES |-> 20150615],
     [ISO3 |-> "AFG", DATES |-> 20250701],
     [ISO3 |-> "AFG"]}

\* the list of the records recs
RECURSIVE ListOf(_, _)
ListOf(recs, src) ==
    IF recs = <<>> THEN <<>>
    ELSE ListAppend(ListOf(SubSeq(recs, 1, Len(recs) - 1), src),
                    recs[Len(recs)], src, Len(recs))

DirectLists(src) ==
    {ListOf(recs, src) :
        recs \in UNION {[1..n -> DirectRecords] : n \in 0..MaxList}}

\* the dicts of model to list, over the models in any order
DirectModelData ==
    {<<>>}
    \cup {<<<<AllModels[i], l>>>> : i \in DOMAIN AllModels, l \in DirectLists(1)}
    \cup {<<<<AllModels[p[1]], l1>>, <<AllModels[p[2]], l2>>>> :
             p \in {q \in (DOMAIN AllModels) \X (DOMAIN AllModels) : q[1] # q[2]},
             l1 \in DirectLists(1), l2 \in DirectLists(2)}

DirectCodes == {"AFG", "ATA", "ZZZ"}

\* the strings and formats format_date is called with
DigitGroups ==
    {Digits(2020, 4), Digits(1, 2), Digits(2, 2), Digits(2, 1), Digits(13, 2),
     Digits(31, 2)}
DateStrings ==
    {EmptyString, Text}
    \cup {DateString(sep, p[1], p[2], p[3], suffix) :
             sep \in {"-", "/"}, p \in DigitGroups \X DigitGroups \X DigitGroups,
             suffix \in {"", "T00:00:00Z"}}
DateFormats ==
    {None, Some(Format("-", "Y", "m", "d")), Some(Format("/", "d", "m", "Y")),
     Some(Format("-", "Y", "d", "m"))}

Calls ==
    {[fn |-> "get_date_range", records |-> l] : l \in DirectLists(1)}
    \cup {[fn |-> "generate_dataset", country_code |-> c,
            country_model_data |-> d] :
               c \in DirectCodes, d \in DirectModelData}
    \cup {[fn |-> "format_date", date_str |-> s, date_fmt |-> f] :
               s \in DateStrings, f \in DateFormats}

CallsInit ==
    /\ driver = "none"
    /\ configuration = Configuration
    /\ call \in {Some(c) : c \in Calls}
    /\ ret = None
    /\ pc = "call"
    /\ models = <<>>
    /\ max_records = None
    /\ server = [kind |-> "any"]
    /\ mi = 0
    /\ offset = 0
    /\ total = None
    /\ response = None
    /\ batch = <<>>
    /\ country_code = ""
    /\ country_data = <<>>
    /\ di = 0
    /\ requests = <<>>
    /\ yielded = <<>>
    /\ emitted = <<>>
    /\ results = <<>>
    /\ tempdir = <<>>

Returns(value) ==
    /\ ret' = Some(value)
    /\ pc' = "returned"
    /\ UNCHANGED <<models, max_records, server, mi, offset, total, response,
                   batch, country_code, country_data, di, requests, yielded,
                   emitted, results, configuration, call, driver>>

\* lines 151-164
CallGetDateRange ==
    /\ pc = "call"
    /\ call[1].fn = "get_date_range"
    /\ Returns(get_date_range(call[1].records))
    /\ UNCHANGED tempdir

\* lines 82-137
CallGenerateDataset ==
    /\ pc = "call"
    /\ call[1].fn = "generate_dataset"
    /\ LET dataset == generate_dataset(call[1].country_code,
                                       call[1].country_model_data)
       IN  /\ Returns(dataset)
           /\ tempdir' = [i \in DOMAIN dataset.written |->
                             [group |-> 1, filename |-> dataset.written[i]]]

\* lines 139-149
CallFormatDate ==
    /\ pc = "call"
    /\ call[1].fn = "format_date"
    /\ Returns(format_date(call[1].date_str, call[1].date_fmt))
    /\ UNCHANGED tempdir

CallsNext ==
    \/ CallGetDateRange
    \/ CallGenerateDataset
    \/ CallFormatDate

SpecCalls == CallsInit /\ [][CallsNext]_vars

\* ------------------------------------------------------------ claims

\* Every place a run of records holds in the emitted groups: group g, the
\* m-th model key of its dict, the r-th run of that key's list.
EmittedRuns ==
    UNION {UNION {{[g |-> g, m |-> m, r |-> r,
                    code |-> emitted[g].country_code,
                    model |-> emitted[g].model_data[m][1],
                    run |-> emitted[g].model_data[m][2][r]] :
                      r \in DOMAIN emitted[g].model_data[m][2]} :
                  m \in DOMAIN emitted[g].model_data} :
           g \in DOMAIN emitted}

\* The emitted places that hold record number i of fetch number k.
PlacesOf(k, i) ==
    {e \in EmittedRuns : e.run.src = k /\ e.run.lo <= i /\ i <= e.run.hi}

\* C1: when the aggregator has been drained to its end, every record
\* fetch_data yielded for a model is in exactly one emitted group, under that
\* model's key and under its own country code, and nothing else was emitted.
C1_RecordConservation ==
    pc = "done" =>
        /\ \A k \in DOMAIN yielded : \A y \in DOMAIN yielded[k] :
              \A i \in yielded[k][y].lo .. yielded[k][y].hi :
                 /\ Cardinality(PlacesOf(k, i)) = 1
                 /\ \A e \in PlacesOf(k, i) :
                       /\ e.model = models[k]
                       /\ "ISO3" \in DOMAIN yielded[k][y].rec =>
                             /\ e.code = yielded[k][y].rec.ISO3
                             /\ e.run.rec.ISO3 = yielded[k][y].rec.ISO3
        /\ \A e \in EmittedRuns :
              /\ e.run.src \in DOMAIN yielded
              /\ 1 <= e.run.lo
              /\ e.run.hi <= ListLen(yielded[e.run.src])

\* C1's case: a drained run of two models in which a country was emitted
\* at a flush and again at the end.
C1_Witness ==
    /\ pc = "done"
    /\ Len(models) = 2
    /\ \E g, h \in DOMAIN emitted :
          /\ g < h
          /\ emitted[g].country_code = emitted[h].country_code
          /\ emitted[g].at = "flush"
          /\ emitted[h].at = "drain"

\* The country's records in the map, 0 for a country that is not in it.
Buffered(cd, code) ==
    IF Has(cd, code) THEN total_records(Lookup(cd, code)) ELSE 0

\* C2 (state): a country holds 10,000 buffered records or more only while
\* the aggregator is suspended at the yield of that very country's group,
\* which is the latest emission and holds what the map holds (a driver
\* that stops iterating leaves it suspended there).
C2_AtThreshold ==
    \A c \in Keys(country_data) :
        Buffered(country_data, c) >= 10000 =>
            /\ pc \in {"yield_flush", "stopped"}
            /\ c = country_code
            /\ emitted # <<>>
            /\ emitted[Len(emitted)] =
                  [country_code |-> c, model_data |-> Lookup(country_data, c),
                   at |-> "flush"]

\* C2 (step): the step that takes a country to 10,000 emits one group; while
\* the group is out no record is consumed and no page requested; the step
\* that resumes the aggregator leaves that country without buffered records
\* and every other country as it was, and goes on with the records.
C2_FlushStep ==
    /\ (\E c \in Keys(country_data') :
           /\ Buffered(country_data', c) >= 10000
           /\ Buffered(country_data, c) < 10000)
          => /\ Len(emitted') = Len(emitted) + 1
             /\ pc' = "yield_flush"
    /\ pc = "yield_flush" =>
          /\ yielded' = yielded
          /\ requests' = requests
          /\ pc' \in {"yield_flush", "iterate", "stopped"}
          /\ pc' = "iterate" =>
                /\ Buffered(country_data', country_code) = 0
                /\ ~Has(country_data', country_code)
                /\ \A c \in Keys(country_data) \ {country_code} :
                      /\ Has(country_data', c)
                      /\ Lookup(country_data', c) = Lookup(country_data, c)

\* C2: a country whose buffered records reach 10,000 is emitted at once,
\* before another record is consumed, and has no buffered records when the
\* aggregator resumes.
C2_ThresholdFlush == []C2_AtThreshold /\ [][C2_FlushStep]_vars

\* C2's case: a country was flushed, the aggregator went on, and a later
\* record of that country sits in a fresh bucket beside another country.
C2_Witness ==
    /\ pc = "iterate"
    /\ \E g \in DOMAIN emitted :
          /\ emitted[g].at = "flush"
          /\ Buffered(country_data, emitted[g].country_code) = 1
    /\ Cardinality(Keys(country_data)) >= 2

\* C3 as claimed: with max_records = N, fetch_data yields at most N records
\* for a model.
C3_RecordCap ==
    max_records # None =>
        \A k \in DOMAIN yielded : ListLen(yielded[k]) <= max_records[1]

\* The requests made for a model, in order.
RequestsOf(model) == SelectSeq(requests, LAMBDA r : r.model = model)

\* The fetch of the k-th model is over.
FetchEnded(k) ==
    \/ k < mi
    \/ k = mi /\ pc \in {"model", "drain", "yield_drain", "done"}

\* A list of yielded records as the rows of a page, and whether it numbers
\* its records 1, 2, 3, ... in order.
AsRows(l) == [i \in DOMAIN l |-> [rec |-> l[i].rec, n |-> l[i].hi - l[i].lo + 1]]
InOrder(l) ==
    \A i \in DOMAIN l :
        l[i].lo = (IF i = 1 THEN 1 ELSE l[i - 1].hi + 1) /\ l[i].lo <= l[i].hi

\* C4: without a cap and against a server that pages its T records in
\* order, the j-th request of a model asks limit 1000 at offset 1000 (j-1),
\* what fetch_data has yielded is the first records of the collection in
\* server order, and all T of them once the fetch is over.
C4_CompleteInOrder ==
    (server.kind = "paged" /\ max_records = None) =>
        \A k \in DOMAIN yielded :
            /\ \A j \in DOMAIN RequestsOf(models[k]) :
                  /\ RequestsOf(models[k])[j].limit = 1000
                  /\ RequestsOf(models[k])[j].offset = 1000 * (j - 1)
            /\ InOrder(yielded[k])
            /\ AsRows(yielded[k]) = Take(server.coll, ListLen(yielded[k]))
            /\ FetchEnded(k) => ListLen(yielded[k]) = Rows(server.coll)

\* C4's case: a collection of more than one page has been fetched to the end.
C4_Witness ==
    /\ server.kind = "paged"
    /\ max_records = None
    /\ Rows(server.coll) > 1000
    /\ FetchEnded(1)
    /\ Len(RequestsOf(models[1])) >= 2
    /\ ListLen(yielded[1]) = Rows(server.coll)

Ceil(a, b) == (a + b - 1) \div b
PageBound(tot) == IF Ceil(tot, 1000) > 1 THEN Ceil(tot, 1000) ELSE 1

\* C5 (state): while the first page is being yielded the effective total is
\* the cap or, without one, the total of the first response, 0 when it has
\* none.
C5_EffectiveTotal ==
    (pc = "iterate" /\ offset = 0) =>
        total = (IF max_records # None THEN max_records
                 ELSE Some(Get(response[1], "total", 0)))

\* C5 (step): the effective total never changes during a fetch, and every
\* request after the first of a fetch stays within
\* max(1, ceil(effective total / 1000)) requests.
C5_Step ==
    /\ (total # None /\ total' # None) => total' = total
    /\ requests' # requests =>
          \/ total = max_records /\ offset = 0
                /\ Len(RequestsOf(models[mi])') = 1
          \/ /\ total # None
             /\ Len(RequestsOf(models[mi])') <= PageBound(total[1])

\* C5: a fetch_data stream ends after at most max(1, ceil(effective total /
\* 1000)) page requests, the effective total being fixed at the cap or at
\* the first response's total.
C5_Termination == []C5_EffectiveTotal /\ [][C5_Step]_vars

\* C5's case: a server that answers every request with records and changed
\* its total from 1001 to 5000; the second page is used up, and the fetch
\* ends there.
C5_Witness ==
    /\ server.kind = "any"
    /\ max_records = None
    /\ pc = "iterate"
    /\ batch = <<>>
    /\ offset = 1000
    /\ total = Some(1001)
    /\ Get(response[1], "total", 0) = 5000
    /\ Len(RequestsOf(models[mi])) = 2

\* The models of the requests, a model named once for each stretch of
\* consecutive requests it has.
RECURSIVE Stretches(_)
Stretches(names) ==
    IF Len(names) <= 1 THEN names
    ELSE IF names[1] = names[2] THEN Stretches(Tail(names))
    ELSE <<names[1]>> \o Stretches(Tail(names))

RequestedModels == Stretches([i \in DOMAIN requests |-> requests[i].model])

\* The runs of records the map holds, tagged like EmittedRuns.
BufferedRuns ==
    UNION {UNION {{[c |-> c, m |-> m, r |-> r,
                    run |-> country_data[c][2][m][2][r]] :
                      r \in DOMAIN country_data[c][2][m][2]} :
                  m \in DOMAIN country_data[c][2]} :
           c \in DOMAIN country_data}

RECURSIVE SumLen(_)
SumLen(S) ==
    IF S = {} THEN 0
    ELSE LET e == CHOOSE x \in S : TRUE
         IN  (e.run.hi - e.run.lo + 1) + SumLen(S \ {e})

\* How many records of fetch k are in the map or in an emitted group, a
\* group still in the map (a flush not yet resumed) counted once.
Placed(k) ==
    SumLen({e \in EmittedRuns : e.run.src = k})
        + (IF pc = "yield_flush" THEN 0
           ELSE SumLen({e \in BufferedRuns : e.run.src = k}))

\* C6 (state): the requests so far are for the first models of the list in
\* the list's order, each model's requests in one stretch.
C6_InOrder ==
    /\ Len(RequestedModels) <= Len(models)
    /\ RequestedModels = SubSeq(models, 1, Len(RequestedModels))

\* C6 (step): when a page is requested the previous page has been yielded
\* to its last record, and every record of the models before the requested
\* one has been bucketed.
C6_Step ==
    requests' # requests =>
        /\ batch = <<>>
        /\ requests'[Len(requests')].model = models[mi]
        /\ \A k \in 1..(mi - 1) : Placed(k) = ListLen(yielded[k])

\* C6: the models are fetched one after the other in the order given; no
\* page of a model is requested before the model before it is finished.
C6_Sequential == []C6_InOrder /\ [][C6_Step]_vars

\* C6's case: the second model's page is requested after the first model
\* yielded records over more than one page.
C6_Witness ==
    /\ Len(models) = 2
    /\ RequestedModels = models
    /\ Len(RequestsOf(models[1])) >= 2
    /\ ListLen(yielded[1]) > 1000

\* The groups emitted at the end, and the entries of the map that hold a
\* record, as <<country, dict>> pairs.
DrainEmitted ==
    LET d == SelectSeq(emitted, LAMBDA g : g.at = "drain")
    IN  [i \in DOMAIN d |-> <<d[i].country_code, d[i].model_data>>]
NonEmpty(cd) ==
    SelectSeq(cd, LAMBDA e : \E i \in DOMAIN e[2] : ListLen(e[2][i][2]) > 0)

\* C7 (state): once the streams are exhausted the groups emitted since are
\* the map's entries that hold a record, one group each, in the map's order,
\* up to the entry the loop is at; at the end all of them.
C7_Drained ==
    pc \in {"drain", "yield_drain", "done"} =>
        /\ mi = Len(models)
        /\ DrainEmitted =
              NonEmpty(SubSeq(country_data, 1,
                              IF pc = "yield_drain" THEN di ELSE di - 1))
        /\ pc = "done" => di = Len(country_data) + 1
        /\ \A i, j \in DOMAIN DrainEmitted :
              DrainEmitted[i][1] = DrainEmitted[j][1] => i = j

\* C7 (step): the end-of-stream loop requests no page, consumes no record,
\* changes no bucket, and stops when the map's entries are used up; it is
\* left before that only by the driver, which stops iterating or ends the
\* run with an exception of its own.
C7_Step ==
    pc \in {"drain", "yield_drain"} =>
        /\ requests' = requests
        /\ yielded' = yielded
        /\ country_data' = country_data
        /\ (pc = "drain" /\ di > Len(country_data)) => pc' = "done"
        /\ pc = "drain" => pc' \in {"drain", "yield_drain", "done"}
        /\ pc' \in {"drain", "yield_drain", "done", "stopped", "raised"}

\* C7: at exhaustion every country that still has buffered records is
\* emitted exactly once, no other country is, and the aggregator ends.
C7_EndOfStreamDrain == []C7_Drained /\ [][C7_Step]_vars

\* C7's case: the aggregator ended after emitting two countries at the end,
\* while a country flushed earlier and left without records was not emitted
\* again.
C7_Witness ==
    /\ pc = "done"
    /\ Len(DrainEmitted) >= 2
    /\ \E g \in DOMAIN emitted :
          /\ emitted[g].at = "flush"
          /\ \A i \in DOMAIN DrainEmitted :
                DrainEmitted[i][1] # emitted[g].country_code

\* C8: every emitted group has at least one model, and every model of it
\* has at least one record.
C8_OnlyPopulatedModels ==
    \A g \in DOMAIN emitted :
        /\ emitted[g].model_data # <<>>
        /\ \A m \in DOMAIN emitted[g].model_data :
              ListLen(emitted[g].model_data[m][2]) >= 1

\* C8's case: of two models fetched, a country with records of only one was
\* emitted at the end, and a group was emitted mid-stream.
C8_Witness ==
    /\ Len(models) = 2
    /\ FetchEnded(2)
    /\ ListLen(yielded[2]) > 0
    /\ \E g \in DOMAIN emitted :
          emitted[g].at = "drain" /\ Len(emitted[g].model_data) = 1
    /\ \E g \in DOMAIN emitted : emitted[g].at = "flush"

\* C9: a record without ISO3 is only ever bucketed and emitted under
\* "Unknown", and once the aggregator is drained every such record that was
\* yielded is in a group emitted with that code.
C9_UnknownSentinel ==
    /\ \A e \in BufferedRuns :
          "ISO3" \notin DOMAIN e.run.rec => country_data[e.c][1] = "Unknown"
    /\ \A e \in EmittedRuns :
          "ISO3" \notin DOMAIN e.run.rec => e.code = "Unknown"
    /\ pc = "done" =>
          \A k \in DOMAIN yielded : \A y \in DOMAIN yielded[k] :
              "ISO3" \notin DOMAIN yielded[k][y].rec =>
                 \A i \in yielded[k][y].lo .. yielded[k][y].hi :
                    \E e \in PlacesOf(k, i) :
                       /\ e.code = "Unknown"
                       /\ "ISO3" \notin DOMAIN e.run.rec

\* C9's case: the aggregator is drained and a record without ISO3 was
\* emitted.
C9_Witness ==
    /\ pc = "done"
    /\ \E k \in DOMAIN yielded : \E y \in DOMAIN yielded[k] :
          "ISO3" \notin DOMAIN yielded[k][y].rec
    /\ \E e \in EmittedRuns : e.code = "Unknown"

\* C10 (state): the outcome of generate_dataset for every group whose
\* country code has no name is nothing, with a warning logged; when the
\* aggregator is drained every emitted group has been handled.
C10_Skipped ==
    /\ \A i \in DOMAIN results :
          (results[i].kind # "continue"
              /\ get_country_name_from_iso3(emitted[i].country_code) = None) =>
              (results[i].kind = "none" /\ results[i].log = "warning")
    /\ Len(results) <= Len(emitted)
    /\ pc = "done" => Len(results) = Len(emitted)

\* C10 (step): handing a group whose country code has no name to
\* generate_dataset raises nothing: the driver stays in its loop, the
\* aggregator where it was suspended, to be resumed for the next group.
C10_Step ==
    (~Handled /\ get_country_name_from_iso3(
                     emitted[Len(results) + 1].country_code) = None) =>
        /\ Len(results') = Len(results) + 1
        /\ pc' = pc
        /\ pc' \in {"yield_flush", "yield_drain"}

\* C10: for a country code without a name generate_dataset returns nothing
\* and raises no error, and the driver goes on with the following groups.
C10_UnresolvableCountry == []C10_Skipped /\ [][C10_Step]_vars

\* C10's case: the loop that calls generate_dataset for every group got
\* nothing for a group with an unresolvable code and a dataset for a later
\* group.
C10_Witness ==
    \E i, j \in DOMAIN results :
        /\ i < j
        /\ get_country_name_from_iso3(emitted[i].country_code) = None
        /\ results[i].kind = "none"
        /\ results[j].kind = "dataset"

\* The dates of the records of the lists that have one.
DatesOf(lists) ==
    UNION {{lists[i][r].rec.DATES :
               r \in {q \in DOMAIN lists[i] : "DATES" \in DOMAIN lists[i][q].rec}} :
           i \in DOMAIN lists}

\* (lo, hi) is the range of the dates: absent for none, else the least and
\* the greatest of them.
IsRange(range, dates) ==
    /\ dates = {} => range = <<None, None>>
    /\ dates # {} =>
          /\ range[1] # None /\ range[2] # None
          /\ range[1][1] \in dates /\ \A d \in dates : range[1][1] <= d
          /\ range[2][1] \in dates /\ \A d \in dates : d <= range[2][1]

\* C11: get_date_range returns (absent, absent) for a list without a dated
\* record, the empty list included, (d, d) when only the date d occurs, and
\* otherwise the least and the greatest date of the records that have one;
\* the time period of the dataset generate_dataset returns is that range of
\* the records of all models of the group taken together.
C11_DateRange ==
    (pc = "returned") =>
        /\ call[1].fn = "get_date_range" =>
              /\ IsRange(ret[1], DatesOf(<<call[1].records>>))
              /\ \A d \in DatesOf(<<call[1].records>>) :
                    DatesOf(<<call[1].records>>) = {d} =>
                        ret[1] = <<Some(d), Some(d)>>
        /\ (call[1].fn = "generate_dataset" /\ ret[1].kind = "dataset") =>
              IsRange(ret[1].time_period,
                      DatesOf(Values(call[1].country_model_data)))

\* C11's case: a dataset of two models, the least date in one model's
\* records only, the greatest in the other's only, next to a record without
\* a date.
C11_Witness ==
    /\ pc = "returned"
    /\ call[1].fn = "generate_dataset"
    /\ ret[1].kind = "dataset"
    /\ Len(call[1].country_model_data) = 2
    /\ DatesOf(<<call[1].country_model_data[1][2]>>) = {20250701}
    /\ DatesOf(<<call[1].country_model_data[2][2]>>) = {20070101}
    /\ \E r \in DOMAIN call[1].country_model_data[2][2] :
          "DATES" \notin DOMAIN call[1].country_model_data[2][2][r].rec
    /\ ret[1].time_period = <<Some(20070101), Some(20250701)>>

\* The resource names of the models, for a country name.
C12_Names(country_name) ==
    ("food" :> "Real Time Food Prices for " \o country_name)
        @@ ("energy" :> "Real Time Energy Prices for " \o country_name)

\* C12: a dataset has one resource per model key of its group and no other,
\* in the order of the keys, which is the order in which the models first
\* put a record into the bucket; each is named "Real Time <Model> Prices for
\* <country name>", the model capitalised, and has all the records of its
\* model as rows.
C12_OneResourcePerModel ==
    \A i \in DOMAIN results :
        results[i].kind = "dataset" =>
            LET md == emitted[i].model_data
                rs == results[i].resources
                country_name == CountryNames[emitted[i].country_code]
            IN  /\ Len(rs) = Len(md)
                /\ \A j \in DOMAIN md :
                      /\ rs[j].name = C12_Names(country_name)[md[j][1]]
                      /\ rs[j].rows = md[j][2]
                      /\ ListLen(rs[j].rows) >= 1
                /\ \A j, k \in DOMAIN md :
                      j < k => /\ md[j][1] # md[k][1]
                               /\ md[j][2][1].src < md[k][2][1].src

\* C12's case: of two models fetched, the group of Afghanistan the test's
\* loop generated the dataset of got the two resources, food first, the
\* energy resource with all three energy records.
C12_Witness ==
    /\ driver = "test"
    /\ models = <<"food", "energy">>
    /\ results # <<>>
    /\ LET dataset == results[Len(results)]
       IN  /\ dataset.kind = "dataset"
           /\ Len(dataset.resources) = 2
           /\ dataset.resources[1].name =
                  "Real Time Food Prices for Afghanistan"
           /\ dataset.resources[2].name =
                  "Real Time Energy Prices for Afghanistan"
           /\ ListLen(dataset.resources[2].rows) = 3
           /\ \A r \in DOMAIN dataset.resources[2].rows :
                 dataset.resources[2].rows[r].src = 2

\* C13: a record whose date is malformed or absent does not abort the
\* aggregator: once fetch_data has yielded it, it is in the bucket or in an
\* emitted group, its date the raw string or absent.
C13_MalformedDateRecoverable ==
    \A k \in DOMAIN yielded :
        \A y \in DOMAIN yielded[k] :
            ~parse_date(GetOpt(yielded[k][y].rec, "DATES")).ok =>
                /\ pc # "raised"
                /\ \E e \in EmittedRuns \cup BufferedRuns :
                      /\ e.run.src = k
                      /\ e.run.lo <= yielded[k][y].lo
                      /\ yielded[k][y].hi <= e.run.hi
                      /\ GetOpt(e.run.rec, "DATES") =
                             GetOpt(yielded[k][y].rec, "DATES")

\* The configuration keys the requests made and the datasets produced have
\* looked up, the per-model resource descriptions apart.
C14_KeysUsed ==
    (IF requests = <<>> THEN {} ELSE {"base_url"})
        \cup {requests[i].model : i \in DOMAIN requests}
        \cup (IF \E i \in DOMAIN results : results[i].kind = "dataset"
              THEN {"title", "tags"} ELSE {})

\* The resource description keys the datasets produced have looked up.
C14_DescriptionsUsed ==
    UNION {{"description_" \o emitted[i].model_data[j][1] :
               j \in DOMAIN emitted[i].model_data} :
           i \in {g \in DOMAIN results : results[g].kind = "dataset"}}

\* C14: a missing configuration key is fatal: no page is requested and no
\* dataset produced with a configuration key it needs missing, be it the
\* base URL, the model's endpoint path, the title, the tags or the
\* per-model resource description.
C14_MissingKeyFatal ==
    C14_KeysUsed \cup C14_DescriptionsUsed \subseteq DOMAIN configuration

\* C15 as it is claimed: for every string and every format, format_date of
\* what format_date returned, with the same format, returns the same.
C15_Idempotent ==
    (pc = "returned" /\ call[1].fn = "format_date") =>
        format_date(ret[1], call[1].date_fmt) = ret[1]

\* C15: for every string, and for no format or a format other than
\* year-day-month with hyphens, format_date of what format_date returned,
\* with the same format, returns the same.
C15_IdempotentUnlessSwapped ==
    (pc = "returned" /\ call[1].fn = "format_date"
        /\ call[1].date_fmt # Some(Format("-", "Y", "d", "m"))) =>
        format_date(ret[1], call[1].date_fmt) = ret[1]

\* C15's case: a day/month/year string was normalised under its format to
\* another string, which that format does not read.
C15_Witness ==
    /\ pc = "returned"
    /\ call[1].fn = "format_date"
    /\ call[1].date_fmt = Some(Format("/", "d", "m", "Y"))
    /\ call[1].date_str =
          DateString("/", Digits(2, 1), Digits(1, 2), Digits(2020, 4), "")
    /\ ret[1] = DateString("-", Digits(2020, 4), Digits(1, 2), Digits(2, 2), "")
    /\ ~strptime(ret[1], call[1].date_fmt[1]).ok

\* The rows of the pages requested so far.
RECURSIVE C16_RowsRequested(_)
C16_RowsRequested(reqs) ==
    IF reqs = <<>> THEN 0 ELSE Head(reqs).rows + C16_RowsRequested(Tail(reqs))

RECURSIVE C16_RowsYielded(_)
C16_RowsYielded(lists) ==
    IF lists = <<>> THEN 0
    ELSE ListLen(Head(lists)) + C16_RowsYielded(Tail(lists))

\* C16 (state): no page is requested ahead: every row of every page
\* requested has been yielded and bucketed, but for the rows of the current
\* page after the record being worked on.
C16_NoReadAhead ==
    /\ C16_RowsRequested(requests) = C16_RowsYielded(yielded) + Rows(batch)
    /\ Len(results) <= Len(emitted)

\* C16 (step): a page is requested only while the driver waits for the next
\* group, every group before handled; while a group is out nothing is
\* requested, yielded, bucketed or emitted until the driver asks for the next
\* group, which it does only when it has handled the one it has; once the
\* driver has stopped iterating nothing happens at all.
C16_Step ==
    /\ requests' # requests =>
          /\ pc = "request"
          /\ Len(results) = Len(emitted)
    /\ (pc \in {"yield_flush", "yield_drain"} /\ pc' \notin {"iterate", "drain"})
          => /\ requests' = requests
             /\ yielded' = yielded
             /\ country_data' = country_data
             /\ batch' = batch
             /\ emitted' = emitted
    /\ (pc \in {"yield_flush", "yield_drain"} /\ pc' \in {"iterate", "drain"})
          => Len(results) = Len(emitted)
    /\ pc = "stopped" => vars' = vars

\* C16: the aggregator works only when the driver asks for the next group.
C16_PullBased == []C16_NoReadAhead /\ [][C16_Step]_vars

\* C16's case: the test's loop stopped at its first group, emitted from
\* the first model's eleventh page with a row of that page yet to be
\* yielded; the second model was never requested.
C16_Witness ==
    /\ pc = "stopped"
    /\ Len(emitted) = 1
    /\ emitted[1].at = "flush"
    /\ Len(models) = 2
    /\ mi = 1
    /\ server.kind = "paged"
    /\ Len(requests) = 11
    /\ batch # <<>>

\* C17 (state): after a page without rows the model is asked for no other
\* page, and what had been yielded for it stays yielded: the pages of a
\* model before its page without rows are all the records yielded for it.
C17_NoFurtherRequest ==
    \A i \in DOMAIN requests :
        requests[i].rows = 0 =>
            /\ \A j \in DOMAIN requests :
                  j > i => requests[j].model # requests[i].model
            /\ \E k \in DOMAIN yielded :
                  /\ models[k] = requests[i].model
                  /\ ListLen(yielded[k]) =
                         C16_RowsRequested(RequestsOf(requests[i].model))
                  /\ (k = mi => batch = <<>>)

\* C17 (step): a response without a data field or with an empty data list
\* ends fetch_data without an error, whatever the offset and the total: no
\* record is yielded or bucketed and no group emitted by it, and the
\* aggregator is at its for loop, to take the next model or, after the last,
\* to emit what the buckets hold.
C17_Step ==
    /\ (requests' # requests /\ requests'[Len(requests')].rows = 0)
          => /\ pc' = "model"
             /\ mi' = mi
             /\ yielded' = yielded
             /\ country_data' = country_data
             /\ emitted' = emitted
    /\ pc = "model" =>
          \/ (mi < Len(models) /\ pc' = "request" /\ mi' = mi + 1
                 /\ offset' = 0)
          \/ (mi = Len(models) /\ pc' = "drain")

\* C17: a page response with no data field or with an empty data list ends
\* the fetch of that model, without error and without a further request for
\* it; the records yielded before stay, and the aggregator goes on to the
\* next model.
C17_EndOfStream == []C17_NoFurtherRequest /\ [][C17_Step]_vars

\* C17's case: the first model's second page, at offset 1000 of a total of
\* 1001, came without rows; the first page's records are in the bucket and
\* the second model is being fetched.
C17_Witness ==
    /\ Len(models) = 2
    /\ mi = 2
    /\ Len(requests) = 3
    /\ requests[1].model = models[1] /\ requests[1].rows > 0
    /\ requests[2].model = models[1] /\ requests[2].rows = 0
    /\ requests[2].offset = 1000
    /\ requests[3].model = models[2] /\ requests[3].rows > 0
    /\ max_records = Some(1001)
    /\ ListLen(yielded[1]) = requests[1].rows
    /\ SumLen({e \in BufferedRuns : e.run.src = 1}) = requests[1].rows

\* The records of a country fetch_data has yielded, over all models, and the
\* groups emitted for it.
C18_Received(c) ==
    C16_RowsYielded([k \in DOMAIN yielded |->
        SelectSeq(yielded[k], LAMBDA run : Get(run.rec, "ISO3", "Unknown") = c)])
C18_Emissions(c, at) ==
    Len(SelectSeq(emitted, LAMBDA g : g.country_code = c /\ g.at \in at))
C18_Countries ==
    {emitted[g].country_code : g \in DOMAIN emitted}
        \cup UNION {{Get(yielded[k][r].rec, "ISO3", "Unknown") :
                        r \in DOMAIN yielded[k]} : k \in DOMAIN yielded}

\* C18: a country that has received n records has been emitted at most
\* ceil(n / 10,000) times, more than once only if n > 10,000; when the
\* aggregator has been drained it has been emitted once for each 10,000
\* records, and once more at exhaustion if n is no multiple of 10,000:
\* ceil(n / 10,000) times.
C18_EmissionCount ==
    \A c \in C18_Countries :
        LET n == C18_Received(c)
        IN  /\ C18_Emissions(c, {"flush", "drain"}) <= Ceil(n, 10000)
            /\ C18_Emissions(c, {"flush", "drain"}) > 1 => n > 10000
            /\ C18_Emissions(c, {"flush"}) <= n \div 10000
            /\ pc = "done" =>
                  /\ C18_Emissions(c, {"flush"}) = n \div 10000
                  /\ C18_Emissions(c, {"drain"}) =
                         (IF n % 10000 = 0 THEN 0 ELSE 1)
                  /\ C18_Emissions(c, {"flush", "drain"}) = Ceil(n, 10000)

\* C18's case: drained, a country that received 40,002 records from two
\* models was emitted four times mid-stream and once at exhaustion, and one
\* that received two records once, at exhaustion.
C18_Witness ==
    /\ pc = "done"
    /\ \E c \in C18_Countries :
          /\ C18_Received(c) = 40002
          /\ C18_Emissions(c, {"flush"}) = 4
          /\ C18_Emissions(c, {"drain"}) = 1
    /\ \E c \in C18_Countries :
          /\ C18_Received(c) = 2
          /\ C18_Emissions(c, {"drain"}) = 1
          /\ C18_Emissions(c, {"flush"}) = 0

\* The records a dict of model to list holds.
C19_Size(model_data) == C16_RowsYielded(Values(model_data))

\* C19: whenever the aggregator is to take the next record, or has taken
\* them all, every country of the bucket map holds at least 1 and at most
\* 9,999 records; every group emitted mid-stream holds exactly 10,000
\* records and every group emitted at exhaustion at least 1 and at most
\* 9,999.
C19_BoundedBuffer ==
    /\ pc \in {"model", "request", "iterate", "drain", "yield_drain", "done"} =>
          \A i \in DOMAIN country_data :
              /\ C19_Size(country_data[i][2]) >= 1
              /\ C19_Size(country_data[i][2]) <= 9999
    /\ \A g \in DOMAIN emitted :
          /\ emitted[g].at = "flush" => C19_Size(emitted[g].model_data) = 10000
          /\ emitted[g].at = "drain" =>
                /\ C19_Size(emitted[g].model_data) >= 1
                /\ C19_Size(emitted[g].model_data) <= 9999

\* C19's case: the aggregator is to take the next record with a country at
\* 9,999 records, of two models, after a group of that country was emitted
\* mid-stream.
C19_Witness ==
    /\ pc = "iterate"
    /\ batch # <<>>
    /\ \E i \in DOMAIN country_data :
          /\ C19_Size(country_data[i][2]) = 9999
          /\ Len(country_data[i][2]) = 2
          /\ \E g \in DOMAIN emitted :
                /\ emitted[g].at = "flush"
                /\ emitted[g].country_code = country_data[i][1]

\* C20: when generate_dataset returns nothing, the country's name not found
\* (a warning logged) or its location rejected by the catalog (an error
\* logged), it has generated no resource and written no file to tempdir;
\* when it returns a dataset the files in tempdir are those of its
\* resources.
C20_NoPartialOutput ==
    (pc = "returned" /\ call[1].fn = "generate_dataset") =>
        /\ ret[1].kind = "none" =>
              /\ tempdir = <<>>
              /\ "resources" \notin DOMAIN ret[1]
              /\ \/ /\ ret[1].log = "warning"
                    /\ call[1].country_code \notin DOMAIN CountryNames
                 \/ /\ ret[1].log = "error"
                    /\ call[1].country_code \in DOMAIN CountryNames
                    /\ call[1].country_code \notin HDXLocations
        /\ (call[1].country_code \notin DOMAIN CountryNames
               \/ call[1].country_code \notin HDXLocations)
              => ret[1].kind = "none"
        /\ ret[1].kind = "dataset" =>
              tempdir = [j \in DOMAIN ret[1].resources |->
                            [group |-> 1,
                             filename |-> ret[1].resources[j].filename]]

\* C20's case: generate_dataset returned nothing for a country the catalog
\* has no location for, called with records of two models, and tempdir is
\* empty.
C20_Witness ==
    /\ pc = "returned"
    /\ call[1].fn = "generate_dataset"
    /\ call[1].country_code = "ATA"
    /\ Len(call[1].country_model_data) = 2
    /\ \A i \in 1..2 : ListLen(call[1].country_model_data[i][2]) = MaxList
    /\ ret[1].kind = "none"
    /\ ret[1].log = "error"
    /\ tempdir = <<>>

====
